---- MODULE Spec2Model ----
(***************************************************************************)
(* Model of the mini-shell of src/src/shell.py: the session loop            *)
(* (Shell.run), start-up recovery of the sequence counter (Shell.__init__)  *)
(* and the command handlers (CmdHandlers), over a small file tree.          *)
(*                                                                          *)
(* The working tree is a function from absolute paths (sequences of names,  *)
(* the root being << >>) to "dir" or to a file's content.  The trash        *)
(* directory, the history file and the counter file live in the home        *)
(* directory, which no command argument of the model names: they are        *)
(* variables of their own.  Text files are sequences of characters; the     *)
(* raw command line of a history entry, which nothing parses, is the one    *)
(* opaque symbol CmdText.                                                   *)
(***************************************************************************)
EXTENDS Integers, Sequences, FiniteSets, TLC

VARIABLES
    fs,              \* working tree: path -> "dir" | content
    trash,           \* trash directory: entry name -> subtree
    histFile,        \* history file: characters, or Absent
    counterFile,     \* counter file: characters, or Absent
    current_dir,     \* Shell.current_dir
    global_counter,  \* Shell.global_counter
    last_undo,       \* Shell.last_undo
    pc,              \* "run" | "end" (session over) | "dead" (process died)
    result,          \* what the last cycle reported: [status, err, note]
    rev,             \* the command that registered last_undo, and the state before it
    okCount,         \* commands committed so far
    dropCount,       \* history lines removed by undo so far
    cycles,          \* command cycles so far
    crashes          \* process deaths so far

vars == <<fs, trash, histFile, counterFile, current_dir, global_counter,
          last_undo, pc, result, rev, okCount, dropCount, cycles, crashes>>

\* ------------------------------------------------------------------ bounds

MaxCycles == 3
MaxDepth == 3
MaxCrashes == 1

\* ------------------------------------------------------------------ paths

DIR == "dir"
Root == << >>
Absent == <<"ENOENT">>

IsPrefix(p, q) == Len(p) <= Len(q) /\ SubSeq(q, 1, Len(p)) = p
Parent(p) == IF p = Root THEN Root ELSE SubSeq(p, 1, Len(p) - 1)
Name(p) == p[Len(p)]
Rest(p, q) == SubSeq(q, Len(p) + 1, Len(q))

Exists(f, p) == p = Root \/ p \in DOMAIN f
IsDirAt(f, p) == p = Root \/ (p \in DOMAIN f /\ f[p] = DIR)
IsFileAt(f, p) == p \in DOMAIN f /\ f[p] # DIR

\* The entry at p with everything below it, as relative path -> value.
Subtree(f, p) ==
    LET below == {q \in DOMAIN f : IsPrefix(p, q)}
    IN  [r \in {Rest(p, q) : q \in below} |-> f[p \o r]]

Prune(f, p) == [q \in {x \in DOMAIN f : ~IsPrefix(p, x)} |-> f[q]]

\* The missing ancestors of p, which os.makedirs creates.
MissingParents(f, p) ==
    {SubSeq(p, 1, k) : k \in 1..(Len(p) - 1)} \ DOMAIN f

Graft(f, p, t) ==
    LET placed == {p \o r : r \in DOMAIN t}
        made == MissingParents(f, p)
    IN  [q \in DOMAIN f \cup made \cup placed |->
            IF q \in placed THEN t[Rest(p, q)]
            ELSE IF q \in made THEN DIR
            ELSE f[q]]

Depth(f) == IF DOMAIN f = {} THEN 0
            ELSE CHOOSE n \in 1..(MaxDepth + 4) :
                    /\ \E q \in DOMAIN f : Len(q) = n
                    /\ \A q \in DOMAIN f : Len(q) <= n

\* An ancestor of p that is a file makes every operation on p fail (ENOTDIR).
ParentUsable(f, p) == \A k \in 1..(Len(p) - 1) : ~IsFileAt(f, SubSeq(p, 1, k))

\* ------------------------------------------------------------------ text

Digits == <<"0", "1", "2", "3", "4", "5", "6", "7", "8", "9">>
IsDigit(c) == \E i \in 1..10 : Digits[i] = c
DigitValue(c) == (CHOOSE i \in 1..10 : Digits[i] = c) - 1
IsSpace(c) == c \in {" ", "\n"}

\* str(n) of a non-negative integer, as characters and as a string.
RECURSIVE Decimal(_)
Decimal(n) == IF n < 10 THEN <<Digits[n + 1]>>
              ELSE Decimal(n \div 10) \o <<Digits[(n % 10) + 1]>>

RECURSIVE DecimalStr(_)
DecimalStr(n) == IF n < 10 THEN Digits[n + 1]
                 ELSE DecimalStr(n \div 10) \o Digits[(n % 10) + 1]

\* s.strip()
RECURSIVE LStrip(_)
LStrip(s) == IF s # << >> /\ IsSpace(Head(s)) THEN LStrip(Tail(s)) ELSE s

RECURSIVE RStrip(_)
RStrip(s) == IF s # << >> /\ IsSpace(s[Len(s)]) THEN RStrip(SubSeq(s, 1, Len(s) - 1))
             ELSE s

Strip(s) == RStrip(LStrip(s))

\* int(s) for the unsigned decimal texts of the model; Invalid is ValueError.
Invalid == -1

RECURSIVE DigitsValue(_)
DigitsValue(s) == IF s = << >> THEN 0
                  ELSE 10 * DigitsValue(SubSeq(s, 1, Len(s) - 1)) + DigitValue(s[Len(s)])

ParseInt(s) ==
    LET t == Strip(s)
    IN  IF t # << >> /\ \A i \in 1..Len(t) : IsDigit(t[i]) THEN DigitsValue(t)
        ELSE Invalid

\* f.readlines(): the lines with their terminators; the last may have none.
RECURSIVE ReadLines(_)
ReadLines(s) ==
    IF s = << >> THEN << >>
    ELSE IF \E i \in 1..Len(s) : s[i] = "\n"
         THEN LET k == CHOOSE i \in 1..Len(s) :
                          s[i] = "\n" /\ \A j \in 1..(i - 1) : s[j] # "\n"
              IN  <<SubSeq(s, 1, k)>> \o ReadLines(SubSeq(s, k + 1, Len(s)))
         ELSE <<s>>

\* f.writelines(lines)
RECURSIVE Join(_)
Join(lines) == IF lines = << >> THEN << >> ELSE Head(lines) \o Join(Tail(lines))

\* line.split('.')[0]
BeforeDot(line) ==
    IF \E i \in 1..Len(line) : line[i] = "."
    THEN LET k == CHOOSE i \in 1..Len(line) :
                     line[i] = "." /\ \A j \in 1..(i - 1) : line[j] # "."
         IN  SubSeq(line, 1, k - 1)
    ELSE line

Max(a, b) == IF a >= b THEN a ELSE b

\* ------------------------------------------------------------------ start-up recovery

\* The loop of __init__ over the history lines: nums, in file order.
RECURSIVE CollectNums(_)
CollectNums(lines) ==
    IF lines = << >> THEN << >>
    ELSE LET line == Head(lines)
             num == ParseInt(Strip(BeforeDot(line)))
         IN  IF Strip(line) # << >> /\ num # Invalid
             THEN <<num>> \o CollectNums(Tail(lines))
             ELSE CollectNums(Tail(lines))

RECURSIVE MaxOf(_)
MaxOf(nums) == IF Len(nums) = 1 THEN nums[1] ELSE Max(nums[1], MaxOf(Tail(nums)))

HistCounter(hist) ==
    IF hist = Absent THEN 0
    ELSE LET nums == CollectNums(ReadLines(hist))
         IN  IF nums # << >> THEN MaxOf(nums) ELSE 0

CounterFromHistOnly(hist, cfile) == HistCounter(hist)

CounterFromFileOnly(hist, cfile) ==
    IF cfile # Absent /\ ParseInt(cfile) # Invalid THEN ParseInt(cfile) ELSE 0

\* Recovery that counts the history lines instead of reading their numbers.
RecoverLineCount(hist, cfile) ==
    IF hist = Absent THEN 0 ELSE Len(ReadLines(hist))

\* Recovery left out: the counter starts at 0 whatever the files hold.
RecoverNothing(hist, cfile) == 0

\* global_counter as __init__ leaves it.
Recover(hist, cfile) ==
    LET h == HistCounter(hist)
    IN  IF cfile # Absent /\ ParseInt(cfile) # Invalid THEN Max(h, ParseInt(cfile))
        ELSE h

\* ------------------------------------------------------------------ shutil

Fine(f) == [err |-> "", fs |-> f]
Fail(e, f) == [err |-> e, fs |-> f]

IsDirTree(t) == t[Root] = DIR

\* Why nothing can be created at p: an ancestor is a file, or p's parent is missing.
ParentError(f, p) ==
    IF ~ParentUsable(f, p) THEN "NotADirectoryError"
    ELSE IF ~Exists(f, Parent(p)) THEN "FileNotFoundError"
    ELSE ""

\* shutil.copy2(src, dst) of a file to a path that does not exist.
Copy2(f, src, dst) ==
    IF ParentError(f, dst) # "" THEN Fail(ParentError(f, dst), f)
    ELSE Fine(Graft(f, dst, Subtree(f, src)))

\* shutil.copytree(src, dst): src is listed, dst made with its parents, then filled.
Copytree(f, src, dst) ==
    IF ~IsDirAt(f, src) THEN Fail("NotADirectoryError", f)
    ELSE IF Exists(f, dst) THEN Fail("FileExistsError", f)
    ELSE IF ~ParentUsable(f, dst) THEN Fail("NotADirectoryError", f)
    ELSE Fine(Graft(f, dst, Subtree(f, src)))

\* The tree t arriving at real, a path that is absent or a file (os.rename, and
\* shutil.move's copy when the rename fails): f is the tree without the source.
Place(f, real, t) ==
    IF IsDirTree(t)
    THEN IF Exists(f, real) THEN Fail("FileExistsError", f)
         ELSE IF ~ParentUsable(f, real) THEN Fail("NotADirectoryError", f)
         ELSE Fine(Graft(f, real, t))
    ELSE IF ParentError(f, real) # "" THEN Fail(ParentError(f, real), f)
         ELSE Fine(Graft(Prune(f, real), real, t))

\* shutil.move(src, dst) inside the working tree.
ShutilMove(f, src, dst) ==
    LET real == IF IsDirAt(f, dst) THEN dst \o <<Name(src)>> ELSE dst
    IN  IF ~Exists(f, src) \/ src = Root THEN Fail("FileNotFoundError", f)
        ELSE IF IsDirAt(f, dst) /\ src = dst THEN Fine(f)
        ELSE IF IsDirAt(f, dst) /\ Exists(f, real) THEN Fail("Error", f)
        ELSE IF IsDirAt(f, src) /\ IsPrefix(src, real) THEN Fail("Error", f)
        ELSE LET placed == Place(Prune(f, src), real, Subtree(f, src))
             IN  IF placed.err # "" THEN Fail(placed.err, f) ELSE placed

\* shutil.move(path, trash_dir / tname): out of the working tree, into the trash
\* under a name that is free there.
MoveToTrash(f, t, path, tname) ==
    [err |-> "", fs |-> Prune(f, path), trash |-> (tname :> Subtree(f, path)) @@ t]

WithoutEntry(t, tname) == [n \in DOMAIN t \ {tname} |-> t[n]]

\* A copy out of the trash in place of a move: the trash entry stays.
CopyFromTrash(f, t, tname, dst) ==
    IF tname \notin DOMAIN t THEN [err |-> "FileNotFoundError", fs |-> f, trash |-> t]
    ELSE [err |-> Place(f, dst, t[tname]).err, fs |-> Place(f, dst, t[tname]).fs,
          trash |-> t]

\* shutil.move(trash_dir / tname, dst): out of the trash, into the working tree.
MoveFromTrash(f, t, tname, dst) ==
    LET real == IF IsDirAt(f, dst) THEN dst \o <<tname>> ELSE dst
        placed == Place(f, real, t[tname])
    IN  IF tname \notin DOMAIN t THEN [err |-> "FileNotFoundError", fs |-> f, trash |-> t]
        ELSE IF IsDirAt(f, dst) /\ Exists(f, real)
             THEN [err |-> "Error", fs |-> f, trash |-> t]
        ELSE IF placed.err # "" THEN [err |-> placed.err, fs |-> f, trash |-> t]
        ELSE [err |-> "", fs |-> placed.fs, trash |-> WithoutEntry(t, tname)]

\* os.remove(p)
OsRemove(f, p) ==
    IF ~Exists(f, p) THEN Fail("FileNotFoundError", f)
    ELSE IF IsDirAt(f, p) THEN Fail("IsADirectoryError", f)
    ELSE Fine(Prune(f, p))

\* shutil.rmtree(p)
Rmtree(f, p) ==
    IF ~Exists(f, p) THEN Fail("FileNotFoundError", f)
    ELSE IF ~IsDirAt(f, p) \/ p = Root THEN Fail("NotADirectoryError", f)
    ELSE Fine(Prune(f, p))

\* ------------------------------------------------------------------ handlers

ParentArg == <<"..">>
RootArg == <<"/">>

\* shell.current_dir / arg
Abs(arg) == IF arg = RootArg THEN Root ELSE current_dir \o arg

NoUndo == [op |-> "none", from |-> Root, to |-> Root, tname |-> ""]
NoReg == [n |-> 0, src |-> Root, dst |-> Root, tname |-> "", into |-> FALSE]

\* A handler that returns None having changed nothing.
Same == [err |-> "", fs |-> fs, trash |-> trash, undo |-> last_undo,
         hist |-> histFile, cwd |-> current_dir, reg |-> NoReg, note |-> ""]

Raise(e) == [Same EXCEPT !.err = e]

ls(args) ==
    LET target == IF args # << >> THEN Abs(args[1]) ELSE current_dir
    IN  IF ~Exists(fs, target) THEN Raise("FileNotFoundError") ELSE Same

cd(arg) ==
    LET new_dir == IF arg = RootArg THEN Root
                   ELSE IF arg = ParentArg THEN Parent(current_dir)
                   ELSE current_dir \o arg
    IN  IF IsDirAt(fs, new_dir) THEN [Same EXCEPT !.cwd = new_dir]
        ELSE Raise("FileNotFoundError")

cat(args) ==
    IF args = << >> THEN Raise("ValueError")
    ELSE IF IsFileAt(fs, Abs(args[1])) THEN Same
    ELSE Raise("FileNotFoundError")

grep(recursive, args) ==
    IF Len(args) # 2 THEN Raise("ValueError")
    ELSE LET path == Abs(args[2])
         IN  IF ~Exists(fs, path) THEN Raise("FileNotFoundError")
             ELSE IF IsDirAt(fs, path) /\ ~recursive THEN Raise("IsADirectoryError")
             ELSE Same

\* cp registering the removal of its source in place of its destination.
cpUndoRemovesSource(recursive, args) ==
    IF Len(args) # 2 THEN Raise("ValueError")
    ELSE LET src == Abs(args[1])
             dst == Abs(args[2])
             copied == IF recursive THEN Copytree(fs, src, dst) ELSE Copy2(fs, src, dst)
         IN  IF ~Exists(fs, src) THEN Raise("FileNotFoundError")
             ELSE IF Exists(fs, dst) THEN Raise("FileExistsError")
             ELSE IF IsDirAt(fs, src) /\ ~recursive
                  THEN [Raise("IsADirectoryError") EXCEPT !.note = "omitting directory"]
             ELSE IF copied.err # "" THEN Raise(copied.err)
             ELSE [Same EXCEPT
                     !.fs = copied.fs,
                     !.undo = [op |-> IF IsDirAt(copied.fs, src) THEN "rmtree" ELSE "remove",
                               from |-> src, to |-> Root, tname |-> ""],
                     !.reg = [n |-> 1, src |-> src, dst |-> dst, tname |-> "",
                              into |-> FALSE]]

\* cp copying a directory as a tree when -r was left out.
cpTreeWithoutFlag(recursive, args) ==
    IF Len(args) # 2 THEN Raise("ValueError")
    ELSE LET src == Abs(args[1])
             dst == Abs(args[2])
             copied == IF recursive \/ IsDirAt(fs, src) THEN Copytree(fs, src, dst)
                       ELSE Copy2(fs, src, dst)
         IN  IF ~Exists(fs, src) THEN Raise("FileNotFoundError")
             ELSE IF Exists(fs, dst) THEN Raise("FileExistsError")
             ELSE IF copied.err # "" THEN Raise(copied.err)
             ELSE [Same EXCEPT
                     !.fs = copied.fs,
                     !.undo = [op |-> IF IsDirAt(copied.fs, dst) THEN "rmtree" ELSE "remove",
                               from |-> dst, to |-> Root, tname |-> ""],
                     !.reg = [n |-> 1, src |-> src, dst |-> dst, tname |-> "",
                              into |-> FALSE]]

\* note is the message of the error where two handlers raise the same class.
cp(recursive, args) ==
    IF Len(args) # 2 THEN Raise("ValueError")
    ELSE LET src == Abs(args[1])
             dst == Abs(args[2])
             copied == IF recursive THEN Copytree(fs, src, dst) ELSE Copy2(fs, src, dst)
         IN  IF ~Exists(fs, src) THEN Raise("FileNotFoundError")
             ELSE IF Exists(fs, dst) THEN Raise("FileExistsError")
             ELSE IF IsDirAt(fs, src) /\ ~recursive
                  THEN [Raise("IsADirectoryError") EXCEPT !.note = "omitting directory"]
             ELSE IF copied.err # "" THEN Raise(copied.err)
             ELSE [Same EXCEPT
                     !.fs = copied.fs,
                     !.undo = [op |-> IF IsDirAt(copied.fs, dst) THEN "rmtree" ELSE "remove",
                               from |-> dst, to |-> Root, tname |-> ""],
                     !.reg = [n |-> 1, src |-> src, dst |-> dst, tname |-> "",
                              into |-> FALSE]]

\* mv registering the move back from dst, not from final_dst.
mvUndoFromDst(args) ==
    IF Len(args) # 2 THEN Raise("ValueError")
    ELSE LET src == Abs(args[1])
             dst == Abs(args[2])
             final_dst == IF IsDirAt(fs, dst) THEN dst \o <<Name(src)>> ELSE dst
             moved == ShutilMove(fs, src, final_dst)
         IN  IF ~Exists(fs, src) THEN Raise("FileNotFoundError")
             ELSE IF Exists(fs, final_dst) THEN Raise("FileExistsError")
             ELSE IF moved.err # "" THEN Raise(moved.err)
             ELSE [Same EXCEPT
                     !.fs = moved.fs,
                     !.undo = [op |-> "move", from |-> dst, to |-> src, tname |-> ""],
                     !.reg = [n |-> 1, src |-> src, dst |-> final_dst, tname |-> "",
                              into |-> IsDirAt(fs, dst)]]

mv(args) ==
    IF Len(args) # 2 THEN Raise("ValueError")
    ELSE LET src == Abs(args[1])
             dst == Abs(args[2])
             final_dst == IF IsDirAt(fs, dst) THEN dst \o <<Name(src)>> ELSE dst
             moved == ShutilMove(fs, src, final_dst)
         IN  IF ~Exists(fs, src) THEN Raise("FileNotFoundError")
             ELSE IF Exists(fs, final_dst) THEN Raise("FileExistsError")
             ELSE IF moved.err # "" THEN Raise(moved.err)
             ELSE [Same EXCEPT
                     !.fs = moved.fs,
                     !.undo = [op |-> "move", from |-> final_dst, to |-> src, tname |-> ""],
                     !.reg = [n |-> 1, src |-> src, dst |-> final_dst, tname |-> "",
                              into |-> IsDirAt(fs, dst)]]

\* The base name taken whether or not it is free in the trash.
TrashNameNoProbe(t, base_name, i) == base_name

\* The first free name in the trash: base, base_1, base_2, ...
RECURSIVE TrashName(_, _, _)
TrashName(t, base_name, i) ==
    LET name == IF i = 0 THEN base_name ELSE base_name \o "_" \o DecimalStr(i)
    IN  IF name \in DOMAIN t THEN TrashName(t, base_name, i + 1) ELSE name

\* The loop of rm testing for a directory without -r before it tests for the
\* parent and the root.
RECURSIVE rmLoopLateRefusal(_, _, _, _)
rmLoopLateRefusal(recursive, args, answers, o) ==
    IF args = << >> THEN o
    ELSE LET arg == Head(args)
             path == Abs(arg)
             tname == TrashName(o.trash, Name(path), 0)
             moved == MoveToTrash(o.fs, o.trash, path, tname)
         IN  IF ~Exists(o.fs, path) THEN [o EXCEPT !.err = "FileNotFoundError"]
             ELSE IF IsDirAt(o.fs, path) /\ ~recursive
                  THEN [o EXCEPT !.err = "IsADirectoryError"]
             ELSE IF arg = ParentArg THEN [o EXCEPT !.err = "PermissionError"]
             ELSE IF path = Root THEN [o EXCEPT !.err = "PermissionError"]
             ELSE IF IsDirAt(o.fs, path) /\ recursive /\ Head(answers) # "y"
                  THEN rmLoopLateRefusal(recursive, Tail(args), Tail(answers), o)
             ELSE rmLoopLateRefusal(recursive, Tail(args), Tail(answers),
                         [o EXCEPT
                            !.fs = moved.fs,
                            !.trash = moved.trash,
                            !.undo = [op |-> "restore", from |-> Root, to |-> path,
                                      tname |-> tname],
                            !.reg = [n |-> o.reg.n + 1, src |-> path, dst |-> Root,
                                     tname |-> tname, into |-> FALSE]])

\* The loop of rm over its operands; o is what the loop has done so far, and
\* answers[k] is what the user types if operand k is prompted for.
RECURSIVE rmLoop(_, _, _, _)
rmLoop(recursive, args, answers, o) ==
    IF args = << >> THEN o
    ELSE LET arg == Head(args)
             path == Abs(arg)
             tname == TrashName(o.trash, Name(path), 0)
             moved == MoveToTrash(o.fs, o.trash, path, tname)
         IN  IF arg = ParentArg THEN [o EXCEPT !.err = "PermissionError"]
             ELSE IF ~Exists(o.fs, path) THEN [o EXCEPT !.err = "FileNotFoundError"]
             ELSE IF path = Root THEN [o EXCEPT !.err = "PermissionError"]
             ELSE IF IsDirAt(o.fs, path) /\ ~recursive
                  THEN [o EXCEPT !.err = "IsADirectoryError"]
             ELSE IF IsDirAt(o.fs, path) /\ recursive /\ Head(answers) # "y"
                  THEN rmLoop(recursive, Tail(args), Tail(answers), o)
             ELSE rmLoop(recursive, Tail(args), Tail(answers),
                         [o EXCEPT
                            !.fs = moved.fs,
                            !.trash = moved.trash,
                            !.undo = [op |-> "restore", from |-> Root, to |-> path,
                                      tname |-> tname],
                            !.reg = [n |-> o.reg.n + 1, src |-> path, dst |-> Root,
                                     tname |-> tname, into |-> FALSE]])

rm(recursive, args, answers) ==
    IF args = << >> THEN Raise("ValueError")
    ELSE rmLoop(recursive, args, answers, Same)

\* lines[:-2] written back: one line too many removed.
DropLastTwo(hist) ==
    IF hist = Absent THEN hist
    ELSE LET lines == ReadLines(hist)
         IN  IF lines # << >>
             THEN Join(SubSeq(lines, 1, IF Len(lines) >= 2 THEN Len(lines) - 2 ELSE 0))
             ELSE hist

\* lines[:-1] written back over the history file.
DropLast(hist) ==
    IF hist = Absent THEN hist
    ELSE LET lines == ReadLines(hist)
         IN  IF lines # << >> THEN Join(SubSeq(lines, 1, Len(lines) - 1)) ELSE hist

\* shell.last_undo(): the registered inverse action.
Inverse(u) ==
    LET kept(r) == [err |-> r.err, fs |-> r.fs, trash |-> trash]
    IN  IF u.op = "remove" THEN kept(OsRemove(fs, u.from))
        ELSE IF u.op = "rmtree" THEN kept(Rmtree(fs, u.from))
        ELSE IF u.op = "move" THEN kept(ShutilMove(fs, u.from, u.to))
        ELSE MoveFromTrash(fs, trash, u.tname, u.to)

\* What shell.last_undo() does when the platform answers fault to its first
\* system call: nothing and raises it, or the inverse action.
Attempt(u, fault) ==
    IF fault # "" THEN [err |-> fault, fs |-> fs, trash |-> trash] ELSE Inverse(u)

\* undo rewriting the history file although no action is registered.
undoAlwaysDrops(fault) ==
    IF last_undo.op # "none"
    THEN LET done == Attempt(last_undo, fault)
         IN  IF done.err # "" THEN [Raise(done.err) EXCEPT !.note = "failed"]
             ELSE [Same EXCEPT
                     !.fs = done.fs,
                     !.trash = done.trash,
                     !.hist = DropLast(histFile),
                     !.undo = NoUndo,
                     !.note = "undone"]
    ELSE [Same EXCEPT !.hist = DropLast(histFile), !.note = "noop"]

\* undo leaving the history file as it is.
undoKeepsHistory(fault) ==
    IF last_undo.op # "none"
    THEN LET done == Attempt(last_undo, fault)
         IN  IF done.err # "" THEN [Raise(done.err) EXCEPT !.note = "failed"]
             ELSE [Same EXCEPT
                     !.fs = done.fs,
                     !.trash = done.trash,
                     !.undo = NoUndo,
                     !.note = "undone"]
    ELSE [Same EXCEPT !.note = "noop"]

\* undo clearing the slot before it calls the inverse action.
undoClearsFirst(fault) ==
    IF last_undo.op # "none"
    THEN LET done == Attempt(last_undo, fault)
         IN  IF done.err # "" THEN [Raise(done.err) EXCEPT !.undo = NoUndo, !.note = "failed"]
             ELSE [Same EXCEPT
                     !.fs = done.fs,
                     !.trash = done.trash,
                     !.hist = DropLast(histFile),
                     !.undo = NoUndo,
                     !.note = "undone"]
    ELSE [Same EXCEPT !.note = "noop"]

\* undo never clearing the slot.
undoKeepsSlot(fault) ==
    IF last_undo.op # "none"
    THEN LET done == Attempt(last_undo, fault)
         IN  IF done.err # "" THEN [Raise(done.err) EXCEPT !.note = "failed"]
             ELSE [Same EXCEPT
                     !.fs = done.fs,
                     !.trash = done.trash,
                     !.hist = DropLast(histFile),
                     !.note = "undone"]
    ELSE [Same EXCEPT !.note = "noop"]

\* note tells which branch ran: the inverse action raised ("failed"), it ran
\* and the slot was cleared ("undone"), or "No action to undo" was printed
\* ("noop").
undo(fault) ==
    IF last_undo.op # "none"
    THEN LET done == Attempt(last_undo, fault)
         IN  IF done.err # "" THEN [Raise(done.err) EXCEPT !.note = "failed"]
             ELSE [Same EXCEPT
                     !.fs = done.fs,
                     !.trash = done.trash,
                     !.hist = DropLast(histFile),
                     !.undo = NoUndo,
                     !.note = "undone"]
    ELSE [Same EXCEPT !.note = "noop"]

\* int(args[0]) if args else None; n selects lines[-n:] when it is truthy.
history(args) ==
    IF args # << >> /\ ParseInt(args[1]) = Invalid THEN Raise("ValueError") ELSE Same

\* What history prints, line by line: `if n:` is false for None and for 0,
\* lines[-n:] is every line when n exceeds their number, and each line is
\* printed stripped.
historyPrints(args) ==
    LET lines == IF histFile = Absent THEN << >> ELSE ReadLines(histFile)
        n == IF args = << >> THEN 0 ELSE ParseInt(args[1])
        shown == IF n > 0 THEN SubSeq(lines, Max(1, Len(lines) - n + 1), Len(lines))
                 ELSE lines
    IN  [i \in 1..Len(shown) |-> Strip(shown[i])]

\* ------------------------------------------------------------------ the session loop

\* The increment left out.
NextCounterStuck(c) == c

\* self.global_counter += 1
NextCounter(c) == c + 1

\* open(hist_file, "a"); f.write(f"{counter}. {cmd}\n")
CmdText == "cmd"
HistLine(n, cmd) == Decimal(n) \o <<".", " ", cmd, "\n">>
HistAppend(hist, n, cmd) == (IF hist = Absent THEN << >> ELSE hist) \o HistLine(n, cmd)

\* open(counter_file, "w"); f.write(str(counter))
CounterText(n) == Decimal(n)

Registered(verb, o) ==
    IF o.reg.n > 0
    THEN [verb |-> verb, ok |-> o.err = "", seq |-> NextCounter(global_counter),
          reg |-> o.reg, fs0 |-> fs, trash0 |-> trash]
    ELSE rev

\* One cycle of run() for a command line whose handler does o.
Report(status, err, note) == [status |-> status, err |-> err, note |-> note]

Cycle(verb, o) ==
    /\ pc = "run"
    /\ cycles < MaxCycles
    /\ Depth(o.fs) <= MaxDepth
    /\ cycles' = cycles + 1
    /\ fs' = o.fs
    /\ trash' = o.trash
    /\ last_undo' = o.undo
    /\ rev' = Registered(verb, o)
    /\ dropCount' = IF o.hist # histFile THEN dropCount + 1 ELSE dropCount
    /\ UNCHANGED <<pc, crashes>>
    /\ IF o.err = ""
       THEN /\ current_dir' = o.cwd
            /\ global_counter' = NextCounter(global_counter)
            /\ histFile' = HistAppend(o.hist, global_counter', CmdText)
            /\ counterFile' = CounterText(global_counter')
            /\ okCount' = okCount + 1
            /\ result' = Report("ok", "", o.note)
       ELSE /\ histFile' = o.hist
            /\ UNCHANGED <<current_dir, global_counter, counterFile, okCount>>
            /\ result' = Report("error", o.err, o.note)

\* ------------------------------------------------------------------ inputs

ArgPaths == {<<"a">>, <<"b">>, <<"d">>, <<"d", "a">>}
OneArg == {<<p>> : p \in ArgPaths}
TwoArgs == {<<p, q>> : p \in ArgPaths, q \in ArgPaths}

Line(verb, recursive, args, answer) ==
    [verb |-> verb, recursive |-> recursive, args |-> args, answer |-> answer]

LsLines == {Line("ls", FALSE, a, "") : a \in {<< >>, <<<<"b">>>>}}
CdLines == {Line("cd", FALSE, <<a>>, "") : a \in {RootArg, ParentArg, <<"d">>, <<"a">>}}
CatLines == {Line("cat", FALSE, a, "") : a \in {<< >>, <<<<"a">>>>, <<<<"d">>>>}}
GrepLines ==
    {Line("grep", r, a, "") : r \in BOOLEAN,
        a \in {<<<<"re">>>>, <<<<"re">>, <<"d">>>>, <<<<"re">>, <<"b">>>>}}
CpArgs == {<<<<"a">>>>} \cup {x \in TwoArgs : x[1] \in {<<"a">>, <<"d">>}}
CpLines == {Line("cp", r, a, "") : r \in BOOLEAN, a \in CpArgs}
MvArgs == {<<<<"a">>>>} \cup {x \in TwoArgs : x[1] # <<"d", "a">>}
MvLines == {Line("mv", FALSE, a, "") : a \in MvArgs}
RmArgs ==
    {<< >>, <<ParentArg>>, <<RootArg>>} \cup OneArg
        \cup {<<<<"a">>, <<"b">>>>, <<<<"b">>, <<"a">>>>, <<<<"a">>, <<"d">>>>,
              <<<<"d">>, <<"a">>>>, <<<<"a">>, <<"d", "a">>>>, <<<<"d", "a">>, <<"a">>>>}
RmLines ==
    {Line("rm", FALSE, a, "") : a \in RmArgs}
        \cup {Line("rm", TRUE, a, "y") : a \in RmArgs}
        \cup {Line("rm", TRUE, a, "n") :
                 a \in {x \in RmArgs : \E k \in 1..Len(x) : x[k] = <<"d">>}}
HistoryLines ==
    {Line("history", FALSE, a, "") : a \in {<< >>, <<<<"0">>>>, <<<<"1">>>>, <<<<"x">>>>}}
\* answer is what the platform answers to the inverse action's system call.
UndoLines == {Line("undo", FALSE, << >>, fault) : fault \in {"", "OSError"}}

\* cmd_func = self._commands.get(command); cmd_func(self, args)
Handle(l) ==
    CASE l.verb = "ls" -> ls(l.args)
      [] l.verb = "cd" -> cd(l.args[1])
      [] l.verb = "cat" -> cat(l.args)
      [] l.verb = "grep" -> grep(l.recursive, l.args)
      [] l.verb = "cp" -> cp(l.recursive, l.args)
      [] l.verb = "mv" -> mv(l.args)
      [] l.verb = "rm" -> rm(l.recursive, l.args, [k \in 1..Len(l.args) |-> l.answer])
      [] l.verb = "history" -> history(l.args)
      [] l.verb = "undo" -> undo(l.answer)
      [] OTHER -> Raise("ValueError")

\* ------------------------------------------------------------------ actions

Ls == \E l \in LsLines : Cycle(l.verb, Handle(l))
Cd == \E l \in CdLines : Cycle(l.verb, Handle(l))
Cat == \E l \in CatLines : Cycle(l.verb, Handle(l))
Grep == \E l \in GrepLines : Cycle(l.verb, Handle(l))
Cp == \E l \in CpLines : Cycle(l.verb, Handle(l))
Mv == \E l \in MvLines : Cycle(l.verb, Handle(l))
Rm == \E l \in RmLines : Cycle(l.verb, Handle(l))
History == \E l \in HistoryLines : Cycle(l.verb, Handle(l))
Undo == \E l \in UndoLines : Cycle(l.verb, Handle(l))

\* A verb that is no key of _commands, and a line shlex.split rejects.
Unknown == Cycle("unknown", Handle(Line("unknown", FALSE, << >>, "")))
Unparsed == Cycle("unparsed", Raise("ValueError"))

\* exit raises SystemExit, end of input raises EOFError: the loop breaks.
Leave(verb) ==
    /\ pc = "run"
    /\ cycles < MaxCycles
    /\ cycles' = cycles + 1
    /\ pc' = "end"
    /\ result' = Report("exit", "", "")
    /\ UNCHANGED <<fs, trash, histFile, counterFile, current_dir, global_counter,
                   last_undo, rev, okCount, dropCount, crashes>>

Exit == Leave("exit")
EndOfInput == Leave("eof")

\* The process dies during the cycle of a command whose handler did o, leaving
\* h and c as the history file and the counter file.
Die(verb, o, h, c) ==
    /\ pc = "run"
    /\ cycles < MaxCycles
    /\ crashes < MaxCrashes
    /\ o.err = ""
    /\ cycles' = cycles + 1
    /\ crashes' = crashes + 1
    /\ pc' = "dead"
    /\ fs' = o.fs
    /\ trash' = o.trash
    /\ histFile' = h
    /\ counterFile' = c
    /\ result' = Report("died", "", o.note)
    /\ UNCHANGED <<current_dir, global_counter, last_undo, rev, okCount, dropCount>>

ProperPrefixes(s) == {SubSeq(s, 1, k) : k \in 0..(Len(s) - 1)}

\* The commit of run() is the same code after every handler: the process is
\* taken to die in the cycle of an ls or of an undo.
DyingLines == {Line("ls", FALSE, << >>, ""), Line("undo", FALSE, << >>, "")}

\* ... after the handler returned, before the counter is incremented.
CrashBeforeCommit ==
    \E l \in DyingLines : Die(l.verb, Handle(l), Handle(l).hist, counterFile)

\* ... while the history line is being appended.
CrashInAppend ==
    \E l \in DyingLines :
        \E part \in ProperPrefixes(HistLine(NextCounter(global_counter), CmdText)) :
            Die(l.verb, Handle(l),
                (IF Handle(l).hist = Absent THEN << >> ELSE Handle(l).hist) \o part,
                counterFile)

\* ... between the history append and the opening of the counter file.
CrashBeforeCounterWrite ==
    \E l \in DyingLines :
        Die(l.verb, Handle(l),
            HistAppend(Handle(l).hist, NextCounter(global_counter), CmdText), counterFile)

\* ... after the counter file was truncated, before its text is complete.
CrashInCounterWrite ==
    \E l \in DyingLines :
        \E part \in ProperPrefixes(CounterText(NextCounter(global_counter))) :
            Die(l.verb, Handle(l),
                HistAppend(Handle(l).hist, NextCounter(global_counter), CmdText), part)

\* ... inside undo, after the history file was truncated for rewriting.
CrashInUndo ==
    \E l \in {Line("undo", FALSE, << >>, "")} :
        /\ Handle(l).hist # histFile
        /\ \E part \in ProperPrefixes(Handle(l).hist) \cup {<< >>} :
              part # Handle(l).hist /\ Die(l.verb, Handle(l), part, counterFile)

\* A start that finds the undo slot as the last process left it.
RestartKeepsUndo ==
    /\ pc \in {"end", "dead"}
    /\ pc' = "run"
    /\ global_counter' = Recover(histFile, counterFile)
    /\ current_dir' = Root
    /\ result' = Report("started", "", "")
    /\ UNCHANGED <<fs, trash, histFile, counterFile, last_undo, rev, okCount, dropCount,
                   cycles, crashes>>

\* A new process constructs a Shell: __init__.
Restart ==
    /\ pc \in {"end", "dead"}
    /\ pc' = "run"
    /\ global_counter' = Recover(histFile, counterFile)
    /\ last_undo' = NoUndo
    /\ current_dir' = Root
    /\ result' = Report("started", "", "")
    /\ UNCHANGED <<fs, trash, histFile, counterFile, rev, okCount, dropCount, cycles,
                   crashes>>

InitFs == (<<"a">> :> "x") @@ (<<"d">> :> DIR) @@ (<<"d", "a">> :> "y")

Init ==
    /\ fs = InitFs
    /\ trash = << >>
    /\ histFile = Absent
    /\ counterFile = Absent
    /\ current_dir = Root
    /\ global_counter = 0
    /\ last_undo = NoUndo
    /\ pc = "run"
    /\ result = Report("started", "", "")
    /\ rev = [verb |-> "none", ok |-> FALSE, seq |-> 0, reg |-> NoReg, fs0 |-> InitFs,
              trash0 |-> << >>]
    /\ okCount = 0
    /\ dropCount = 0
    /\ cycles = 0
    /\ crashes = 0

Next ==
    \/ Ls \/ Cd \/ Cat \/ Grep \/ Cp \/ Mv \/ Rm \/ History \/ Undo
    \/ Unknown \/ Unparsed \/ Exit \/ EndOfInput
    \/ CrashBeforeCommit \/ CrashInAppend \/ CrashBeforeCounterWrite
    \/ CrashInCounterWrite \/ CrashInUndo
    \/ Restart

Spec == Init /\ [][Next]_vars

\* ------------------------------------------------------------------ recovery alone

MaxLines == 2

\* History lines as a foreign writer or a torn write may leave them.
SampleLines ==
    { <<"1", ".", " ", CmdText, "\n">>,
      <<"2", ".", " ", CmdText, "\n">>,
      <<"1", "2", "\n">>,
      <<"\n">>,
      <<" ", "\n">>,
      <<"x", ".", " ", CmdText, "\n">>,
      <<" ", "2", " ", ".", CmdText, "\n">>,
      <<"1", ".", "2", "\n">>,
      <<".", "3", "\n">>,
      <<"3">> }

RECURSIVE TextsOf(_)
TextsOf(k) ==
    IF k = 0 THEN {<< >>}
    ELSE TextsOf(k - 1) \cup {t \o l : t \in TextsOf(k - 1), l \in SampleLines}

SampleCounters ==
    {Absent, << >>, <<"2">>, <<" ", "3", "\n">>, <<"x">>, <<"1", " ", "2">>, <<"1", "0">>}

\* No process is running; the files hold anything.
InitRecover ==
    /\ fs = InitFs
    /\ trash = << >>
    /\ histFile \in {Absent} \cup TextsOf(MaxLines)
    /\ counterFile \in SampleCounters
    /\ current_dir = Root
    /\ global_counter = 0
    /\ last_undo = NoUndo
    /\ pc = "end"
    /\ result = Report("exit", "", "")
    /\ rev = [verb |-> "none", ok |-> FALSE, seq |-> 0, reg |-> NoReg, fs0 |-> InitFs,
              trash0 |-> << >>]
    /\ okCount = 0
    /\ dropCount = 0
    /\ cycles = 0
    /\ crashes = 0

NextRecover == Restart

SpecRecover == InitRecover /\ [][NextRecover]_vars

\* ------------------------------------------------------------------ claims

JustStarted == result.status = "started" /\ pc = "run"
Committed == result.status = "ok"
Failed == result.status = "error"
Undone == result.status = "ok" /\ result.note = "undone"
IsCycle == cycles' = cycles + 1

\* The sequence numbers a reader finds in the history file, line by line.
LineNumbers(hist) ==
    IF hist = Absent THEN << >>
    ELSE LET lines == ReadLines(hist)
         IN  [i \in 1..Len(lines) |-> ParseInt(BeforeDot(lines[i]))]

NumbersIn(hist) ==
    {LineNumbers(hist)[i] : i \in 1..Len(LineNumbers(hist))} \ {Invalid}

EntryCount(hist) == IF hist = Absent THEN 0 ELSE Len(ReadLines(hist))

\* C1: a command that completes raises the in-memory counter by exactly 1,
\* whatever its verb, and a command that fails leaves it unchanged.
C1_CounterStep ==
    [][IsCycle => /\ (Committed' => global_counter' = global_counter + 1)
                  /\ (Failed' => global_counter' = global_counter)]_vars

C1_Witness ==
    /\ Failed
    /\ global_counter = 2
    /\ okCount = 2
    /\ dropCount = 1

\* C2: from an empty history and no counter file, a new Shell constructed after
\* sessions that ended normally recovers the number of commands that completed.
C2_RecoversSuccessCount ==
    (JustStarted /\ crashes = 0) => global_counter = okCount

C2_Witness ==
    /\ JustStarted
    /\ crashes = 0
    /\ cycles = MaxCycles
    /\ okCount = 2
    /\ dropCount = 1

\* C3: wherever in a cycle the process died, the counter recovered at the next
\* start is no lower than any sequence number in the history file.
C3_RecoveredNotBelowHistory ==
    JustStarted => \A n \in NumbersIn(histFile) : global_counter >= n

C3_Witness ==
    /\ JustStarted
    /\ crashes = 1
    /\ counterFile # Absent
    /\ ParseInt(counterFile) # Invalid
    /\ \E n \in NumbersIn(histFile) : n > ParseInt(counterFile)

\* C4: recovery returns the largest of the integers that lead the non-blank
\* history lines and the integer of the counter file, skipping what is not an
\* integer, and 0 when there is none.
C4_RecoveryIsLargestSource ==
    JustStarted =>
        LET lines == IF histFile = Absent THEN << >> ELSE ReadLines(histFile)
            fromHist == {ParseInt(BeforeDot(lines[i])) :
                            i \in {j \in 1..Len(lines) : Strip(lines[j]) # << >>}}
            fromFile == IF counterFile = Absent THEN {} ELSE {ParseInt(counterFile)}
            found == (fromHist \cup fromFile) \ {Invalid}
        IN  IF found = {} THEN global_counter = 0
            ELSE /\ global_counter \in found
                 /\ \A n \in found : n <= global_counter

C4_Witness ==
    /\ JustStarted
    /\ histFile # Absent
    /\ Invalid \in {LineNumbers(histFile)[i] : i \in 1..Len(LineNumbers(histFile))}
    /\ NumbersIn(histFile) # {}
    /\ counterFile # Absent
    /\ ParseInt(counterFile) # Invalid
    /\ global_counter > ParseInt(counterFile)

\* C5: while no process died, the sequence numbers of the history lines are
\* strictly increasing from the first line to the last.
C5_HistoryIncreasing ==
    crashes = 0 =>
        LET nums == LineNumbers(histFile)
        IN  /\ \A i \in 1..Len(nums) : nums[i] # Invalid
            /\ \A i \in 1..(Len(nums) - 1) : nums[i] < nums[i + 1]

C5_Witness ==
    /\ crashes = 0
    /\ EntryCount(histFile) = 2
    /\ dropCount = 1
    /\ pc = "run"

\* C6 as stated: the history file has as many entries as commands completed.
C6_EntriesEqualSuccesses ==
    crashes = 0 => EntryCount(histFile) = okCount

\* C6 as amended: the history file has as many entries as commands completed,
\* less the entries that reverts removed.
C6_EntriesEqualSuccessesLessDropped ==
    crashes = 0 => EntryCount(histFile) = okCount - dropCount

C6_Witness ==
    /\ crashes = 0
    /\ dropCount = 1
    /\ okCount = 3
    /\ EntryCount(histFile) = 2

\* C7: a command that ends in an error leaves the counter, the history file,
\* the counter file, the trash directory and the undo slot as they were.
C7_ErrorChangesNothing ==
    [][(IsCycle /\ Failed') =>
          UNCHANGED <<global_counter, histFile, counterFile, trash, last_undo>>]_vars

\* C8: a discard that staged one path, then revert: the entry is back at its
\* path with its content, and the trash is as it was before the discard.
C8_DiscardThenRevert ==
    (Undone /\ rev.verb = "rm" /\ rev.ok /\ rev.reg.n = 1) =>
        /\ Exists(fs, rev.reg.src)
        /\ Subtree(fs, rev.reg.src) = Subtree(rev.fs0, rev.reg.src)
        /\ rev.reg.tname \notin DOMAIN trash
        /\ trash = rev.trash0
        /\ fs = rev.fs0

C8_Witness ==
    /\ Undone
    /\ rev.verb = "rm"
    /\ rev.ok
    /\ rev.reg.n = 1
    /\ rev.reg.tname = "a_1"
    /\ DOMAIN trash = {"a"}

\* C9: a relocate, then revert: the entry is back at its source path and gone
\* from the final destination, for a new name and for an existing directory.
C9_RelocateThenRevert ==
    (Undone /\ rev.verb = "mv" /\ rev.ok) =>
        /\ Exists(fs, rev.reg.src)
        /\ Subtree(fs, rev.reg.src) = Subtree(rev.fs0, rev.reg.src)
        /\ ~Exists(fs, rev.reg.dst)

C9_Witness ==
    /\ Undone
    /\ rev.verb = "mv"
    /\ rev.ok
    /\ rev.reg.into
    /\ rev.reg.dst = Parent(rev.reg.dst) \o <<Name(rev.reg.src)>>
    /\ IsDirAt(fs, Parent(rev.reg.dst))

\* C10: a duplicate, then revert: the destination is gone and the source is
\* present and unchanged.
C10_DuplicateThenRevert ==
    (Undone /\ rev.verb = "cp" /\ rev.ok) =>
        /\ ~Exists(fs, rev.reg.dst)
        /\ Exists(fs, rev.reg.src)
        /\ Subtree(fs, rev.reg.src) = Subtree(rev.fs0, rev.reg.src)

C10_Witness ==
    /\ Undone
    /\ rev.verb = "cp"
    /\ rev.ok
    /\ IsDirAt(fs, rev.reg.src)
    /\ IsPrefix(rev.reg.src, rev.reg.dst)

\* A cycle in which the undo handler ran to its end or to its exception.
IsUndoCycle == IsCycle /\ result'.status \in {"ok", "error"} /\
               result'.note \in {"noop", "undone", "failed"}

\* The history file without its last line, as text.
AllButLastLine(hist) ==
    IF hist = Absent THEN hist
    ELSE Join(SubSeq(ReadLines(hist), 1, Len(ReadLines(hist)) - 1))

\* C11 as stated: a revert with no action registered reports the no-op, is not
\* an error, and its cycle leaves the history file unchanged.
C11_NoOpRevertLeavesHistory ==
    [][(IsUndoCycle /\ last_undo.op = "none") =>
          /\ result'.note = "noop"
          /\ result'.status = "ok"
          /\ histFile' = histFile]_vars

\* C11 as amended: a revert with no action registered reports the no-op, is
\* not an error, removes no history entry, and is committed as any command
\* that completes: the history gains one entry, the revert's own.
C11_NoOpRevertIsCommitted ==
    [][(IsUndoCycle /\ last_undo.op = "none") =>
          /\ result'.note = "noop"
          /\ result'.status = "ok"
          /\ histFile' = HistAppend(histFile, global_counter + 1, CmdText)
          /\ EntryCount(histFile') >= EntryCount(histFile)
          /\ fs' = fs
          /\ trash' = trash]_vars

C11_Witness ==
    /\ result.note = "noop"
    /\ result.status = "ok"
    /\ crashes = 0
    /\ LineNumbers(histFile) = <<1, 2>>
    /\ last_undo = NoUndo

\* C12 as stated: a revert that ran the registered action leaves the counter
\* as it was and appends no line: the history is the old one less its last line.
C12_RevertNotNumbered ==
    [][(IsCycle /\ Undone') =>
          /\ global_counter' = global_counter
          /\ histFile' = AllButLastLine(histFile)]_vars

\* C12 as amended: a revert that ran the registered action takes the next
\* sequence number and is appended under it after the last line was removed.
C12_RevertNumbered ==
    [][(IsCycle /\ Undone') =>
          /\ global_counter' = global_counter + 1
          /\ histFile' =
                HistAppend(AllButLastLine(histFile), global_counter + 1, CmdText)]_vars

C12_Witness ==
    /\ Undone
    /\ rev.verb = "rm"
    /\ rev.seq = 1
    /\ global_counter = 2
    /\ LineNumbers(histFile) = <<2>>
    /\ fs = InitFs

\* C13: after a revert that ran the registered action, the history holds no
\* entry under the sequence number of the command whose action was undone,
\* whatever completed between that command and the revert.
C13_UndoneCommandLeavesHistory ==
    (Undone /\ rev.ok) => rev.seq \notin NumbersIn(histFile)

\* The i-th candidate name for base_name in the trash directory.
NthName(base_name, i) == IF i = 0 THEN base_name ELSE base_name \o "_" \o DecimalStr(i)

\* The base names of the paths a command line can name.
BaseNames == {Name(p) : p \in ArgPaths}

\* C14: every trash entry stays, with its content, unless a revert restores
\* that very entry; a cycle that stages n paths adds n entries; a new entry is
\* named base or base_i with base, base_1 .. base_(i-1) all taken, and a path
\* staged alone is held under its name with the content it had.
C14_StagingNeverOverwrites ==
    [][IsCycle =>
          /\ \A n \in DOMAIN trash :
                \/ n \in DOMAIN trash' /\ trash'[n] = trash[n]
                \/ result'.note = "undone" /\ last_undo.op = "restore" /\
                   last_undo.tname = n
          /\ \A n \in DOMAIN trash' \ DOMAIN trash :
                \E b \in BaseNames, i \in 0..Cardinality(DOMAIN trash') :
                    /\ n = NthName(b, i)
                    /\ \A j \in 0..(i - 1) : NthName(b, j) \in DOMAIN trash'
          /\ (DOMAIN trash' \ DOMAIN trash # {}) =>
                /\ rev'.verb = "rm"
                /\ Cardinality(DOMAIN trash') = Cardinality(DOMAIN trash) + rev'.reg.n
                /\ rev'.reg.tname \in DOMAIN trash' \ DOMAIN trash
                /\ rev'.reg.n = 1 =>
                      trash'[rev'.reg.tname] = Subtree(fs, rev'.reg.src)]_vars

C14_Witness ==
    /\ DOMAIN trash = {"a", "a_1"}
    /\ trash["a"] # trash["a_1"]
    /\ rev.verb = "rm"
    /\ rev.reg.n = 2
    /\ rev.reg.tname = "a_1"

\* What rm refuses: the parent of the working directory, and the root.
Refused(arg) == IF arg = RootArg THEN Root ELSE Parent(current_dir)

\* C15: rm of `..` or of the root, with or without -r and whatever is answered,
\* raises PermissionError having moved nothing and changed nothing; after
\* another operand it still ends the command in an error.
C15_RefusesParentAndRoot ==
    pc = "run" =>
    \A flags \in {<<FALSE, "">>, <<TRUE, "y">>, <<TRUE, "n">>},
       arg \in {ParentArg, RootArg} :
        /\ IsDirAt(fs, Refused(arg))
        /\ rm(flags[1], <<arg>>, <<flags[2]>>) = Raise("PermissionError")
        /\ rm(flags[1], <<<<"a">>, arg>>, <<flags[2], flags[2]>>).err =
              IF ~Exists(fs, Abs(<<"a">>)) THEN "FileNotFoundError"
              ELSE IF IsDirAt(fs, Abs(<<"a">>)) /\ ~flags[1] THEN "IsADirectoryError"
              ELSE "PermissionError"

C15_Witness ==
    /\ Failed
    /\ result.err = "PermissionError"
    /\ current_dir = <<"d">>
    /\ IsDirAt(fs, <<"d">>)
    /\ trash # << >>

\* C16 as stated: cp without -r of a directory raises IsADirectoryError
\* whatever the destination, having created nothing and changed nothing, the
\* undo slot included.
C16_DirectoryNeedsFlag ==
    pc = "run" =>
    \A src \in ArgPaths, dst \in ArgPaths :
        IsDirAt(fs, Abs(src)) =>
            cp(FALSE, <<src, dst>>) =
                [Raise("IsADirectoryError") EXCEPT !.note = "omitting directory"]

\* C16 as amended: cp without -r of a directory raises FileExistsError when
\* the destination exists and IsADirectoryError when it does not, having
\* created nothing and changed nothing, the undo slot included.
C16_DirectoryNeedsFlagOrCollides ==
    pc = "run" =>
    \A src \in ArgPaths, dst \in ArgPaths :
        IsDirAt(fs, Abs(src)) =>
            cp(FALSE, <<src, dst>>) =
                IF Exists(fs, Abs(dst)) THEN Raise("FileExistsError")
                ELSE [Raise("IsADirectoryError") EXCEPT !.note = "omitting directory"]

C16_Witness ==
    /\ Failed
    /\ result.err = "IsADirectoryError"
    /\ result.note = "omitting directory"
    /\ last_undo.op = "restore"
    /\ last_undo.tname \in DOMAIN trash
    /\ IsDirAt(fs, <<"d">>)
    /\ fs = [p \in DOMAIN rev.fs0 \ {rev.reg.src} |-> rev.fs0[p]]

\* The entries of the history file as history prints them.
Entries == [i \in 1..EntryCount(histFile) |-> Strip(ReadLines(histFile)[i])]

\* The last n elements of a sequence, all of them when it has fewer.
LastN(seq, n) == SubSeq(seq, Max(1, Len(seq) - n + 1), Len(seq))

\* C17: history n prints the last n entries in their order for every n >= 0,
\* none when n is 0, and history without an argument prints every entry.
C17_LogShowsLastN ==
    pc = "run" =>
        /\ historyPrints(<< >>) = Entries
        /\ \A n \in 0..(EntryCount(histFile) + 1) :
              /\ history(<<Decimal(n)>>).err = ""
              /\ historyPrints(<<Decimal(n)>>) = LastN(Entries, n)

\* C18: when the registered inverse action raises, the revert is reported as
\* an error, the slot keeps the descriptor it held, and the history file, the
\* counter and the counter file are as before.
C18_FailedInverseKeepsSlot ==
    [][(IsCycle /\ result'.note = "failed") =>
          /\ Failed'
          /\ result'.err # ""
          /\ last_undo.op # "none"
          /\ last_undo' = last_undo
          /\ histFile' = histFile
          /\ global_counter' = global_counter
          /\ counterFile' = counterFile]_vars

\* The inverse action raised, and run again it would succeed.
C18_Witness ==
    /\ Failed
    /\ result.note = "failed"
    /\ result.err = "OSError"
    /\ last_undo.op = "restore"
    /\ Attempt(last_undo, "").err = ""
    /\ global_counter = 2

\* Descriptor u is the inverse of what r, the last command that performed a
\* reversible action, did last.
Inverts(u, r) ==
    CASE r.verb = "cp" -> /\ u.op = (IF IsDirAt(r.fs0, r.reg.src) THEN "rmtree" ELSE "remove")
                          /\ u.from = r.reg.dst
      [] r.verb = "mv" -> /\ u.op = "move"
                          /\ u.from = r.reg.dst
                          /\ u.to = r.reg.src
      [] r.verb = "rm" -> /\ u.op = "restore"
                          /\ u.tname = r.reg.tname
                          /\ u.to = r.reg.src
      [] OTHER -> FALSE

\* C19 as stated: a registered descriptor is the inverse of the most recent
\* reversible action, a revert that ran it leaves the slot empty, and a revert
\* right after such a revert is a no-op that changes no file.
C19_SingleSlotNoFileChanged ==
    [][/\ last_undo'.op # "none" => Inverts(last_undo', rev')
       /\ (IsCycle /\ Undone') => last_undo' = NoUndo
       /\ (Undone /\ IsUndoCycle) =>
             /\ result'.note = "noop"
             /\ last_undo' = NoUndo
             /\ fs' = fs
             /\ trash' = trash
             /\ histFile' = histFile
             /\ counterFile' = counterFile]_vars

\* C19 as amended: ... is a no-op that changes no file of the working tree or
\* of the trash, and is committed to the history and counter files.
C19_SingleSlot ==
    [][/\ last_undo'.op # "none" => Inverts(last_undo', rev')
       /\ (IsCycle /\ Undone') => last_undo' = NoUndo
       /\ (Undone /\ IsUndoCycle) =>
             /\ result'.note = "noop"
             /\ last_undo' = NoUndo
             /\ fs' = fs
             /\ trash' = trash
             /\ histFile' = HistAppend(histFile, global_counter + 1, CmdText)
             /\ counterFile' = CounterText(global_counter + 1)]_vars

\* rm of two paths, revert, revert: the second path is back, the first is in
\* the trash, and the second revert was the no-op.
C19_Witness ==
    /\ result.status = "ok"
    /\ result.note = "noop"
    /\ rev.verb = "rm"
    /\ rev.ok
    /\ rev.reg.n = 2
    /\ cycles = 3
    /\ global_counter = 3
    /\ Cardinality(DOMAIN trash) = 1
    /\ rev.reg.tname \notin DOMAIN trash
    /\ Exists(fs, rev.reg.src)

\* C20: a start leaves the trash and the working tree as they are and the undo
\* slot empty, and a revert issued first after a start is the no-op: what was
\* staged stays in the trash and is not put back.
C20_SlotLostTrashKept ==
    [][/\ (pc # "run" /\ pc' = "run") =>
             /\ last_undo' = NoUndo
             /\ trash' = trash
             /\ fs' = fs
       /\ (JustStarted /\ IsUndoCycle) =>
             /\ result'.status = "ok"
             /\ result'.note = "noop"
             /\ trash' = trash
             /\ fs' = fs]_vars

\* rm of one path, exit, start, revert: the no-op, the path still staged.
C20_Witness ==
    /\ result.status = "ok"
    /\ result.note = "noop"
    /\ rev.verb = "rm"
    /\ rev.ok
    /\ rev.reg.n = 1
    /\ rev.reg.tname \in DOMAIN trash
    /\ ~Exists(fs, rev.reg.src)
    /\ trash[rev.reg.tname] = Subtree(rev.fs0, rev.reg.src)
    /\ crashes = 0
    /\ cycles = 3
    /\ okCount = 2

====
